---- MODULE Spec2Model ----
(***************************************************************************)
(* Model of tailor.py: a linear pipeline that locates a job posting, asks  *)
(* an LLM for a tailored LaTeX resume, sanitizes and soft-validates the    *)
(* answer, writes it to disk and compiles it with two pdflatex passes.     *)
(*                                                                         *)
(* Text is a sequence of one-character strings, so that the sanitizer and  *)
(* the validator are computed character by character, as the regular       *)
(* expressions and substring tests of the source compute them.             *)
(***************************************************************************)
EXTENDS Integers, Sequences, FiniteSets, TLC

(* ------------------------------ bounds --------------------------------- *)
MaxArgc == 3      \* len(sys.argv) ranges over 1..MaxArgc
MaxTxt  == 2      \* at most this many .txt files in the job folder
MaxRuns == 2      \* the command is run at most this many times in a row
MaxSegs == 5      \* sanitizer inputs are made of at most this many pieces

(* ------------------------------- text ---------------------------------- *)
\* The backquote character is written "BQ": a string cannot hold it.
BQ == "BQ"
Fence == <<BQ, BQ, BQ>>
TagLatex == <<"l", "a", "t", "e", "x">>
TagTex == <<"t", "e", "x">>
NL == <<"\n">>
BeginMarker ==
    <<"\\", "b", "e", "g", "i", "n", "{", "d", "o", "c", "u", "m", "e", "n", "t", "}">>
EndMarker ==
    <<"\\", "e", "n", "d", "{", "d", "o", "c", "u", "m", "e", "n", "t", "}">>

\* Characters removed by str.strip() and matched by \s.
Whitespace == {" ", "\n", "\t", "\r"}

Max(S) == CHOOSE m \in S : \A k \in S : k <= m
Min(S) == CHOOSE m \in S : \A k \in S : m <= k

\* s[i..] starts with pat (1-based).
StartsWithAt(s, pat, i) ==
    /\ i + Len(pat) - 1 <= Len(s)
    /\ SubSeq(s, i, i + Len(pat) - 1) = pat

\* The Python test "pat in s".
Contains(s, pat) == \E i \in 1..(Len(s) + 1) : StartsWithAt(s, pat, i)

\* str.strip(): drop leading and trailing whitespace.
Strip(s) ==
    LET keep == {i \in 1..Len(s) : s[i] \notin Whitespace}
    IN  IF keep = {} THEN <<>> ELSE SubSeq(s, Min(keep), Max(keep))

\* The language tags the opening-fence pattern accepts, in the order the
\* alternation (?:latex|tex)? tries them; the last is the empty tag.
FenceTags == <<TagLatex, TagTex, <<>>>>

\* End of the match of ^<fence><tag>\s*\n at the start of s for one tag, or 0:
\* \s* is greedy and backtracks to the last newline of the whitespace run.
TagMatchEnd(s, tag) ==
    LET p == Len(Fence) + Len(tag)
        run == {r \in p..Len(s) : \A k \in (p + 1)..r : s[k] \in Whitespace}
        nls == {k \in (p + 1)..Max(run) : s[k] = "\n"}
    IN  IF StartsWithAt(s, Fence \o tag, 1) /\ nls # {} THEN Max(nls) ELSE 0

\* End of the match of r"^<fence>(?:latex|tex)?\s*\n" in s, or 0 when no match.
LeadingFenceEnd(s) ==
    LET hits == {j \in 1..Len(FenceTags) : TagMatchEnd(s, FenceTags[j]) > 0}
    IN  IF hits = {} THEN 0 ELSE TagMatchEnd(s, FenceTags[Min(hits)])

\* Start of the match of r"\n<fence>\s*$" in s, or Len(s) + 1 when no match.
TrailingFenceStart(s) ==
    LET hits == {i \in 1..Len(s) :
                    /\ StartsWithAt(s, NL \o Fence, i)
                    /\ \A k \in (i + 4)..Len(s) : s[k] \in Whitespace}
    IN  IF hits = {} THEN Len(s) + 1 ELSE Min(hits)

strip_markdown_fences(text) ==
    LET t1 == Strip(text)
        t2 == SubSeq(t1, LeadingFenceEnd(t1) + 1, Len(t1))
    IN  SubSeq(t2, 1, TrailingFenceStart(t2) - 1)

validate_latex(text) ==
    LET has_begin == Contains(text, BeginMarker)
        has_end == Contains(text, EndMarker)
    IN  ~(~has_begin \/ ~has_end)

(* ----------------------------- the run -------------------------------- *)
VARIABLES
    pc,               \* position of the run in main
    argc,             \* len(sys.argv)
    isdir,            \* offers/<offer_name> is a directory
    api_key,          \* GOOGLE_API_KEY is set and non-empty
    resume_present,   \* resume.tex can be opened
    folder,           \* the .txt files of the job folder
    txt_files,        \* the list glob.glob returned
    job_posting_path, \* the selected posting, 0 before selection
    opened,           \* the files this run opened for reading, as <<kind, id>>
    llm,              \* the LLM client has been constructed
    invokes,          \* number of llm.invoke calls of this run
    response,         \* <<content>> once llm.invoke returned, <<>> before
    tailored_tex,     \* <<text>> once sanitized, <<>> before
    valid,            \* what validate_latex returned: "unset", "true", "false"
    written,          \* this run wrote the tailored document
    disk_tex,         \* <<content>> of resume-<offer>.tex on disk, <<>> if absent
    cstate,           \* position of compile_pdf in its two-pass loop
    returncodes,      \* return codes of the finished pdflatex passes of this run
    pdflatex_runs,    \* number of pdflatex invocations of this run
    stderr,           \* messages printed to the error stream
    stdout,           \* messages printed to the output stream
    raised,           \* the uncaught exception that ended the run, "" if none
    exit_code,        \* exit status, -1 while the run is in progress
    runs,             \* how many times the command has been started
    prev_posting,     \* the posting an earlier run selected, 0 if none
    text,             \* sanitizer input
    once,             \* <<strip_markdown_fences(text)>>, <<>> before
    twice,            \* <<strip_markdown_fences of that>>, <<>> before
    san_pc            \* position of the sanitizer exercise

env_vars == <<argc, isdir, api_key, resume_present, folder>>
run_vars == <<pc, txt_files, job_posting_path, opened, llm, invokes, response,
              tailored_tex, valid, written, cstate, returncodes, pdflatex_runs,
              stderr, stdout, raised, exit_code>>
san_vars == <<text, once, twice, san_pc>>
vars == <<env_vars, run_vars, disk_tex, runs, prev_posting, san_vars>>

TxtNames == 1..MaxTxt

\* The orders in which a directory listing can return the members of S:
\* glob.glob returns them in the arbitrary order of the listing.
Listings(S) ==
    {f \in [1..Cardinality(S) -> S] : \A i, j \in 1..Cardinality(S) : f[i] = f[j] => i = j}

Doc == BeginMarker \o <<"x">> \o EndMarker

\* The completions the LLM may return.
Responses ==
    { Fence \o TagLatex \o NL \o Doc \o NL \o Fence,
      Doc,
      BeginMarker \o <<"x">>,
      <<" ", "x", "\n">>,
      Fence \o NL \o EndMarker \o NL \o Fence }

\* The state of a freshly started process.
FreshRun ==
    /\ pc = "main"
    /\ txt_files = <<>>
    /\ job_posting_path = 0
    /\ opened = {}
    /\ llm = FALSE
    /\ invokes = 0
    /\ response = <<>>
    /\ tailored_tex = <<>>
    /\ valid = "unset"
    /\ written = FALSE
    /\ cstate = "Idle"
    /\ returncodes = <<>>
    /\ pdflatex_runs = 0
    /\ stderr = {}
    /\ stdout = {}
    /\ raised = ""
    /\ exit_code = -1

SanIdle ==
    /\ text = <<>>
    /\ once = <<>>
    /\ twice = <<>>
    /\ san_pc = "idle"

Init ==
    /\ argc \in 1..MaxArgc
    /\ isdir \in BOOLEAN
    /\ api_key \in BOOLEAN
    /\ resume_present \in BOOLEAN
    /\ folder \in SUBSET TxtNames
    /\ ~isdir => folder = {}
    /\ disk_tex = <<>>
    /\ runs = 1
    /\ prev_posting = 0
    /\ FreshRun
    /\ SanIdle

\* sys.exit(code) after printing msgs to the error stream.
Exit(code, msgs) ==
    /\ pc' = "exited"
    /\ exit_code' = code
    /\ stderr' = stderr \cup msgs

\* Mutation: the exception is reported, and the run ends with status 0.
RaiseMutant(exc) ==
    /\ raised' = exc
    /\ Exit(0, {"traceback"})

\* An uncaught exception: traceback on the error stream, exit status 1.
Raise(exc) ==
    /\ raised' = exc
    /\ Exit(1, {"traceback"})

\* Mutation: any surplus of arguments is accepted.
ArityOkMutant(n) == n >= 2

\* Line 118: the arity test.
ArityOk(n) == n = 2

CheckArgs ==
    /\ pc = "main"
    /\ IF ~ArityOk(argc)
          THEN Exit(1, {"usage"})
          ELSE /\ pc' = "check_dir"
               /\ UNCHANGED <<exit_code, stderr>>
    /\ UNCHANGED <<env_vars, txt_files, job_posting_path, opened, llm, invokes,
                   response, tailored_tex, valid, written, cstate, returncodes,
                   pdflatex_runs, stdout, raised, disk_tex, runs, prev_posting,
                   san_vars>>

CheckDir ==
    /\ pc = "check_dir"
    /\ IF ~isdir
          THEN Exit(1, {"dir_not_found"})
          ELSE /\ pc' = "check_key"
               /\ UNCHANGED <<exit_code, stderr>>
    /\ UNCHANGED <<env_vars, txt_files, job_posting_path, opened, llm, invokes,
                   response, tailored_tex, valid, written, cstate, returncodes,
                   pdflatex_runs, stdout, raised, disk_tex, runs, prev_posting,
                   san_vars>>

\* Mutation: the credential is tested only after the resume was opened.
CheckKeyMutant ==
    /\ pc = "check_key"
    /\ opened' = opened \cup {<<"resume.tex", 0>>}
    /\ IF ~api_key
          THEN Exit(1, {"key_not_set"})
          ELSE /\ pc' = "read_resume"
               /\ UNCHANGED <<exit_code, stderr>>
    /\ UNCHANGED <<env_vars, txt_files, job_posting_path, llm, invokes,
                   response, tailored_tex, valid, written, cstate, returncodes,
                   pdflatex_runs, stdout, raised, disk_tex, runs, prev_posting,
                   san_vars>>

\* Mutation: a missing credential is not noticed.
CredentialMissingMutant(k) == FALSE

\* Line 130: not os.environ.get("GOOGLE_API_KEY").
CredentialMissing(k) == ~k

CheckKey ==
    /\ pc = "check_key"
    /\ IF CredentialMissing(api_key)
          THEN Exit(1, {"key_not_set"})
          ELSE /\ pc' = "read_resume"
               /\ UNCHANGED <<exit_code, stderr>>
    /\ UNCHANGED <<env_vars, txt_files, job_posting_path, opened, llm, invokes,
                   response, tailored_tex, valid, written, cstate, returncodes,
                   pdflatex_runs, stdout, raised, disk_tex, runs, prev_posting,
                   san_vars>>

ReadResume ==
    /\ pc = "read_resume"
    /\ IF resume_present
          THEN /\ opened' = opened \cup {<<"resume.tex", 0>>}
               /\ pc' = "find_job_posting"
               /\ UNCHANGED <<exit_code, stderr, raised>>
          ELSE /\ Raise("FileNotFoundError")
               /\ UNCHANGED opened
    /\ UNCHANGED <<env_vars, txt_files, job_posting_path, llm, invokes,
                   response, tailored_tex, valid, written, cstate, returncodes,
                   pdflatex_runs, stdout, disk_tex, runs, prev_posting,
                   san_vars>>

\* The element find_job_posting returns from a non-empty listing.
Selected(files) == files[1]

find_job_posting ==
    /\ pc = "find_job_posting"
    /\ \E listing \in Listings(folder) :
          /\ txt_files' = listing
          /\ IF listing = <<>>
                THEN /\ Exit(1, {"no_txt_file"})
                     /\ UNCHANGED job_posting_path
                ELSE /\ stderr' = IF Len(listing) > 1
                                     THEN stderr \cup {"multiple_txt_warning"}
                                     ELSE stderr
                     /\ job_posting_path' = Selected(listing)
                     /\ pc' = "read_posting"
                     /\ UNCHANGED exit_code
    /\ UNCHANGED <<env_vars, opened, llm, invokes, response, tailored_tex,
                   valid, written, cstate, returncodes, pdflatex_runs, stdout,
                   raised, disk_tex, runs, prev_posting, san_vars>>

ReadPosting ==
    /\ pc = "read_posting"
    /\ opened' = opened \cup {<<"txt", job_posting_path>>}
    /\ pc' = "construct_llm"
    /\ UNCHANGED <<env_vars, txt_files, job_posting_path, llm, invokes,
                   response, tailored_tex, valid, written, cstate, returncodes,
                   pdflatex_runs, stderr, stdout, raised, exit_code, disk_tex,
                   runs, prev_posting, san_vars>>

\* Lines 145-152: announce the call and construct the client.
ConstructLLM ==
    /\ pc = "construct_llm"
    /\ stdout' = stdout \cup {"calling_gemini"}
    /\ llm' = TRUE
    /\ pc' = "invoke"
    /\ UNCHANGED <<env_vars, txt_files, job_posting_path, opened, invokes,
                   response, tailored_tex, valid, written, cstate, returncodes,
                   pdflatex_runs, stderr, raised, exit_code, disk_tex, runs,
                   prev_posting, san_vars>>

\* llm.invoke(messages) is entered: one blocking call.
Invoke ==
    /\ pc = "invoke"
    /\ invokes' = invokes + 1
    /\ pc' = "await_llm"
    /\ UNCHANGED <<env_vars, txt_files, job_posting_path, opened, llm,
                   response, tailored_tex, valid, written, cstate, returncodes,
                   pdflatex_runs, stderr, stdout, raised, exit_code, disk_tex,
                   runs, prev_posting, san_vars>>

\* The call returns a completion.
InvokeReturns ==
    /\ pc = "await_llm"
    /\ \E r \in Responses : response' = <<r>>
    /\ pc' = "sanitize"
    /\ UNCHANGED <<env_vars, txt_files, job_posting_path, opened, llm, invokes,
                   tailored_tex, valid, written, cstate, returncodes,
                   pdflatex_runs, stderr, stdout, raised, exit_code, disk_tex,
                   runs, prev_posting, san_vars>>

\* The call fails after the client's retries: the exception is not caught.
InvokeRaises ==
    /\ pc = "await_llm"
    /\ Raise("LLMError")
    /\ UNCHANGED <<env_vars, txt_files, job_posting_path, opened, llm, invokes,
                   response, tailored_tex, valid, written, cstate, returncodes,
                   pdflatex_runs, stdout, disk_tex, runs, prev_posting,
                   san_vars>>

Sanitize ==
    /\ pc = "sanitize"
    /\ tailored_tex' = <<strip_markdown_fences(response[1])>>
    /\ pc' = "validate"
    /\ UNCHANGED <<env_vars, txt_files, job_posting_path, opened, llm, invokes,
                   response, valid, written, cstate, returncodes,
                   pdflatex_runs, stderr, stdout, raised, exit_code, disk_tex,
                   runs, prev_posting, san_vars>>

\* Mutation: an invalid document ends the run.
AfterValidateMutant(ok) == IF ok THEN "write" ELSE "exited"

\* Lines 173-175: main discards the result of validate_latex; the statement
\* that follows is the write, whatever the result.
AfterValidate(ok) == "write"

Validate ==
    /\ pc = "validate"
    /\ IF validate_latex(tailored_tex[1])
          THEN /\ valid' = "true"
               /\ UNCHANGED stderr
          ELSE /\ valid' = "false"
               /\ stderr' = stderr \cup {"invalid_latex_warning"}
    /\ pc' = AfterValidate(validate_latex(tailored_tex[1]))
    /\ UNCHANGED <<env_vars, txt_files, job_posting_path, opened, llm, invokes,
                   response, tailored_tex, written, cstate, returncodes,
                   pdflatex_runs, stdout, raised, exit_code, disk_tex, runs,
                   prev_posting, san_vars>>

\* Lines 175-178: open(output_tex, "w") and write, then report.
WriteTex ==
    /\ pc = "write"
    /\ disk_tex' = <<tailored_tex[1]>>
    /\ written' = TRUE
    /\ stdout' = stdout \cup {"tex_saved"}
    /\ pc' = "compile_pdf"
    /\ UNCHANGED <<env_vars, txt_files, job_posting_path, opened, llm, invokes,
                   response, tailored_tex, valid, cstate, returncodes,
                   pdflatex_runs, stderr, raised, exit_code, runs,
                   prev_posting, san_vars>>

\* Lines 181-182, 89-104: compile_pdf is entered and starts pdflatex pass 1.
StartCompile ==
    /\ pc = "compile_pdf"
    /\ cstate = "Idle"
    /\ stdout' = stdout \cup {"compiling"}
    /\ cstate' = "Pass1Running"
    /\ pdflatex_runs' = pdflatex_runs + 1
    /\ pc' = "pdflatex"
    /\ UNCHANGED <<env_vars, txt_files, job_posting_path, opened, llm, invokes,
                   response, tailored_tex, valid, written, returncodes,
                   stderr, raised, exit_code, disk_tex, runs, prev_posting,
                   san_vars>>

\* Mutation: only a negative return code counts as a failure.
PassFailedMutant(rc) == rc < 0

\* Line 105: the test on a finished pass.
PassFailed(rc) == rc # 0

\* Mutation: the run ends with status 0 whatever compile_pdf returned.
ExitAfterCompileMutant(ok) == 0

\* Lines 182-187: the exit status of main once compile_pdf returned ok.
ExitAfterCompile(ok) == IF ok THEN 0 ELSE 1

\* The return codes pdflatex can exit with.
ReturnCodes == {0, 1}

\* A pdflatex pass exits with rc: the rest of the loop body, then either
\* the next pass, or the return of compile_pdf and the end of main.
PassExits ==
    /\ pc = "pdflatex"
    /\ \E rc \in ReturnCodes :
          LET pass_num == Len(returncodes) + 1 IN
          /\ returncodes' = Append(returncodes, rc)
          /\ IF PassFailed(rc)
                THEN /\ cstate' = IF pass_num = 1 THEN "Pass1Failed" ELSE "Pass2Failed"
                     /\ stdout' = stdout \cup {"compilation_failed"}
                     /\ Exit(ExitAfterCompile(FALSE),
                             {"pass_failed", "check_the_log", "stdout_tail"})
                     /\ UNCHANGED pdflatex_runs
                ELSE IF pass_num = 1
                THEN /\ cstate' = "Pass2Running"
                     /\ pdflatex_runs' = pdflatex_runs + 1
                     /\ UNCHANGED <<pc, exit_code, stderr, stdout>>
                ELSE /\ cstate' = "Success"
                     /\ stdout' = stdout \cup {"pdf_ready"}
                     /\ pc' = "exited"
                     /\ exit_code' = ExitAfterCompile(TRUE)
                     /\ UNCHANGED <<pdflatex_runs, stderr>>
    /\ UNCHANGED <<env_vars, txt_files, job_posting_path, opened, llm, invokes,
                   response, tailored_tex, valid, written, raised, disk_tex,
                   runs, prev_posting, san_vars>>

\* The command is run again over the same folder and environment; the files
\* on disk stay, everything else starts afresh.
Rerun ==
    /\ pc = "exited"
    /\ runs < MaxRuns
    /\ runs' = runs + 1
    /\ prev_posting' = IF job_posting_path # 0 THEN job_posting_path ELSE prev_posting
    /\ pc' = "main"
    /\ txt_files' = <<>>
    /\ job_posting_path' = 0
    /\ opened' = {}
    /\ llm' = FALSE
    /\ invokes' = 0
    /\ response' = <<>>
    /\ tailored_tex' = <<>>
    /\ valid' = "unset"
    /\ written' = FALSE
    /\ cstate' = "Idle"
    /\ returncodes' = <<>>
    /\ pdflatex_runs' = 0
    /\ stderr' = {}
    /\ stdout' = {}
    /\ raised' = ""
    /\ exit_code' = -1
    /\ UNCHANGED <<env_vars, disk_tex, san_vars>>

Next ==
    \/ CheckArgs
    \/ CheckDir
    \/ CheckKey
    \/ ReadResume
    \/ find_job_posting
    \/ ReadPosting
    \/ ConstructLLM
    \/ Invoke
    \/ InvokeReturns
    \/ InvokeRaises
    \/ Sanitize
    \/ Validate
    \/ WriteTex
    \/ StartCompile
    \/ PassExits
    \/ Rerun

Spec == Init /\ [][Next]_vars

(* ------------------------ the sanitizer alone -------------------------- *)
TagMixed == <<"L", "a", "T", "e", "X">>

Pieces ==
    { Fence, Fence \o TagLatex, Fence \o TagTex, Fence \o TagMixed,
      NL, <<" ">>, <<"x">> }

\* The texts made of at most n pieces.
RECURSIVE Texts(_)
Texts(n) ==
    IF n = 0 THEN {<<>>}
    ELSE LET shorter == Texts(n - 1)
         IN  shorter \cup {t \o q : t \in shorter, q \in Pieces}

InitSan ==
    /\ argc = 2
    /\ isdir = TRUE
    /\ api_key = TRUE
    /\ resume_present = TRUE
    /\ folder = {1}
    /\ disk_tex = <<>>
    /\ runs = 1
    /\ prev_posting = 0
    /\ FreshRun
    /\ text \in Texts(MaxSegs)
    /\ once = <<>>
    /\ twice = <<>>
    /\ san_pc = "start"

SanitizeOnce ==
    /\ san_pc = "start"
    /\ once' = <<strip_markdown_fences(text)>>
    /\ san_pc' = "once"
    /\ UNCHANGED <<env_vars, run_vars, disk_tex, runs, prev_posting, text, twice>>

SanitizeTwice ==
    /\ san_pc = "once"
    /\ twice' = <<strip_markdown_fences(once[1])>>
    /\ san_pc' = "twice"
    /\ UNCHANGED <<env_vars, run_vars, disk_tex, runs, prev_posting, text, once>>

NextSan == SanitizeOnce \/ SanitizeTwice

SpecSan == InitSan /\ [][NextSan]_vars

(* ------------------------------ claims -------------------------------- *)
Nonzero(code) == code # 0 /\ code # -1

SomePassFailed == \E i \in DOMAIN returncodes : returncodes[i] # 0

PreconditionError == argc # 2 \/ ~isdir \/ ~api_key \/ folder = {}

\* C1: the run exits with status 0 exactly when the tailored document was
\* written and both compiler passes returned zero; a run that ended on bad
\* arity, a missing job folder, a missing posting, a missing credential or a
\* failed compiler pass ended with a non-zero status.
C1_ExitStatus ==
    /\ exit_code = 0 <=> (written /\ returncodes = <<0, 0>>)
    /\ (pc = "exited" /\ (PreconditionError \/ SomePassFailed)) => Nonzero(exit_code)

C1_Witness == pc = "exited" /\ exit_code = 0 /\ written /\ returncodes = <<0, 0>>

CompilerMachine ==
    \/ cstate' = cstate
    \/ cstate = "Idle" /\ cstate' = "Pass1Running"
    \/ cstate = "Pass1Running" /\ cstate' \in {"Pass1Failed", "Pass2Running"}
    \/ cstate = "Pass2Running" /\ cstate' \in {"Pass2Failed", "Success"}
    \/ runs' = runs + 1 /\ cstate' = "Idle"

C2_Step ==
    /\ CompilerMachine
    /\ (runs' = runs /\ cstate \in {"Pass1Failed", "Pass2Failed", "Success"})
          => (cstate' = cstate /\ pdflatex_runs' = pdflatex_runs)
    /\ pdflatex_runs' > pdflatex_runs
          => \/ cstate' = "Pass1Running" /\ returncodes' = <<>>
             \/ cstate' = "Pass2Running" /\ returncodes' = <<0>>
    /\ pdflatex_runs' <= 2
    /\ (cstate' = "Success" \/ "pdf_ready" \in stdout') => returncodes' = <<0, 0>>
    /\ (\E i \in DOMAIN returncodes' : returncodes'[i] # 0)
          => cstate' \in {"Pass1Failed", "Pass2Failed"}

\* C2: compile_pdf moves Idle -> Pass1Running -> {Pass1Failed | Pass2Running}
\* -> {Pass2Failed | Success}; pass 2 starts only after pass 1 returned zero,
\* a failed pass is terminal, pdflatex is invoked at most twice, and success
\* is signalled only after two passes that returned zero.
C2_CompilerStateMachine == [][C2_Step]_vars

C2_Witness == cstate = "Success" /\ pdflatex_runs = 2 /\ "pdf_ready" \in stdout

\* C3: under a precondition error (bad arity, missing folder, missing
\* posting, missing credential) the run never invokes the LLM, never writes
\* the tailored document, never invokes the compiler, and ends non-zero.
C3_NoSideEffects ==
    PreconditionError =>
        /\ invokes = 0
        /\ ~written
        /\ disk_tex = <<>>
        /\ pdflatex_runs = 0
        /\ (pc = "exited" => Nonzero(exit_code))

C3_Witness ==
    /\ pc = "exited"
    /\ "no_txt_file" \in stderr
    /\ folder = {}
    /\ opened = {<<"resume.tex", 0>>}

\* C4: when llm.invoke fails the run ends with a non-zero status and has not
\* written the tailored document; the document is written only after
\* llm.invoke returned a completion.
C4_TransportFailure ==
    /\ raised = "LLMError" => (pc = "exited" /\ Nonzero(exit_code) /\ ~written)
    /\ written => (response # <<>> /\ invokes = 1)
    /\ pc = "await_llm" => ~written

C4_Witness == raised = "LLMError" /\ invokes = 1 /\ pc = "exited"

\* C5: when a compiler pass returns non-zero the run reports the log path,
\* exits non-zero, does not report a finished PDF, and the tailored source
\* written before the compilation is still on disk, unchanged.
C5_CompileFailure ==
    SomePassFailed =>
        /\ "check_the_log" \in stderr
        /\ pc = "exited"
        /\ Nonzero(exit_code)
        /\ "pdf_ready" \notin stdout
        /\ written
        /\ disk_tex # <<>>
        /\ disk_tex = tailored_tex

C5_Witness == returncodes = <<0, 1>> /\ cstate = "Pass2Failed"

C6_Step ==
    /\ pc = "validate" =>
          /\ pc' = "write"
          /\ exit_code' = -1
          /\ tailored_tex' = tailored_tex
          /\ valid' \in {"true", "false"}
          /\ valid' = "false" => "invalid_latex_warning" \in stderr'
    /\ pc = "write" =>
          /\ written'
          /\ disk_tex' = <<strip_markdown_fences(response[1])>>
          /\ pc' = "compile_pdf"
    /\ pc = "compile_pdf" => pdflatex_runs' = 1

\* C6: validate_latex is a soft check: whatever it returns, the next steps
\* are the write of the sanitized LLM output and the compiler invocation; a
\* false result only adds a warning.
C6_SoftValidation == [][C6_Step]_vars

C6_Witness == valid = "false" /\ written /\ pdflatex_runs >= 1

\* C7: with correct arity and no credential, the run ends non-zero without
\* opening the resume or a posting and without constructing or invoking the
\* LLM client.
C7_CredentialFirst ==
    (argc = 2 /\ ~api_key) =>
        /\ opened = {}
        /\ ~llm
        /\ invokes = 0
        /\ pc \in {"main", "check_dir", "check_key", "exited"}
        /\ (pc = "exited" => Nonzero(exit_code))

C7_Witness ==
    /\ argc = 2
    /\ isdir
    /\ ~api_key
    /\ pc = "exited"
    /\ "key_not_set" \in stderr

\* C8: strip_markdown_fences is idempotent: sanitizing a sanitized text
\* gives the same text.
C8_Idempotent == san_pc = "twice" => twice = once

LowerCase(c) ==
    CASE c = "L" -> "l"
      [] c = "A" -> "a"
      [] c = "T" -> "t"
      [] c = "E" -> "e"
      [] c = "X" -> "x"
      [] OTHER -> c

\* A language tag, whatever its case, or no tag.
IsLanguageTag(t) ==
    \/ t = <<>>
    \/ [i \in 1..Len(t) |-> LowerCase(t[i])] \in {TagLatex, TagTex}

\* s is an opening fence line, a body, a newline and a closing fence.
FirstNewline(s) == Min({i \in 1..Len(s) : s[i] = "\n"})
Wrapped(s) ==
    /\ StartsWithAt(s, Fence, 1)
    /\ \E i \in 1..Len(s) : s[i] = "\n"
    /\ IsLanguageTag(SubSeq(s, Len(Fence) + 1, FirstNewline(s) - 1))
    /\ Len(s) - Len(Fence) > FirstNewline(s)
    /\ StartsWithAt(s, NL \o Fence, Len(s) - Len(Fence))
Body(s) == SubSeq(s, FirstNewline(s) + 1, Len(s) - Len(Fence) - 1)

\* C9: for a text wrapped in a fenced block whose opening fence carries an
\* optional language tag in any case, strip_markdown_fences returns the body
\* between the two fence markers; a text without a fence is returned as is.
C9_FenceRemoval ==
    san_pc # "start" =>
        /\ Wrapped(text) => once = <<Body(text)>>
        /\ ~Contains(text, Fence) => once = <<text>>

LocatorRan == job_posting_path # 0 \/ "no_txt_file" \in stderr

\* C10: find_job_posting returns the only .txt file when there is one, ends
\* the run when there is none, and with several returns the first of the
\* listing with a warning; two runs over the same folder select the same
\* file.
C10_Locator ==
    /\ "no_txt_file" \in stderr => (pc = "exited" /\ Nonzero(exit_code) /\ invokes = 0)
    /\ (LocatorRan /\ folder = {}) => "no_txt_file" \in stderr
    /\ (LocatorRan /\ folder # {}) =>
          /\ job_posting_path \in folder
          /\ job_posting_path = txt_files[1]
          /\ "no_txt_file" \notin stderr
    /\ (LocatorRan /\ Cardinality(folder) > 1) => "multiple_txt_warning" \in stderr
    /\ (prev_posting # 0 /\ job_posting_path # 0) => job_posting_path = prev_posting

====
